---- MODULE Spec2Model ----
(***************************************************************************)
(* A model of tau_cli.py: the pickle-file cache (load_cache, save_cache),  *)
(* the loading_animation decorator with its animation thread, and the      *)
(* menu loop of interactive_mode.                                          *)
(*                                                                         *)
(* Time is counted in clock ticks: datetime.now() reads the variable now,  *)
(* which never decreases, and a timedelta is a number of ticks.            *)
(***************************************************************************)
EXTENDS Integers, Sequences, FiniteSets, TLC

\* ------------------------------------------------------------------ bounds
\* The clock runs over 0..MaxTime.
MaxTime == 2
\* Time-to-live arguments of load_cache are drawn from 0..MaxTTL.
MaxTTL == 2
\* In the menu loop the clock runs over 0..MaxNavTime.
MaxNavTime == 1
\* A decorated function is called at most MaxCalls times.
MaxCalls == 2

\* --------------------------------------------------------------- constants
\* CACHE_TTL = timedelta(days=0)
CACHE_TTL == 0

\* The number of glyphs animation() cycles through.
NumFrames == 8

\* The clock ticks in a day (Timedelta.days counts whole days).
TicksPerDay == 2

\* The keys of CACHE_FILES.
DataKeys == {"courses", "assignments", "grades", "recordings"}
CacheKeys == DataKeys \cup {"login_details"}

VARIABLES
    now,        \* the wall clock read by datetime.now()
    files,      \* files[k]: the content of the file CACHE_FILES[k]
    last,       \* the last call of the cache store and what it gave back
    wpc,        \* where the caller's thread is in wrapped()
    tpc,        \* where the animation thread is in animation()
    done,       \* the flag done of wrapped(), read by animation()
    frame,      \* the position of cycle([...]) in animation()
    terminal,   \* what the last terminal.write put on the line
    result,     \* the local result of wrapped()
    calls,      \* how many times wrapped() was called
    default_ttl,  \* the default cache_ttl of load_cache, as configured
    pc,         \* the prompt interactive_mode waits at, or how it ended
    course_choice,  \* the local course_choice of interactive_mode
    menu,       \* the items behind the choices of the prompt shown
    ev          \* what the last answer made interactive_mode do

cacheVars == <<now, files, last>>
animVars == <<wpc, tpc, done, frame, terminal, result, calls>>
navVars == <<default_ttl, pc, course_choice, menu, ev>>
vars == <<now, files, last, wpc, tpc, done, frame, terminal, result, calls,
          default_ttl, pc, course_choice, menu, ev>>

\* ------------------------------------------------------------ the payloads
\* Names are sequences of characters: "H" and "G" stand for two letters of
\* the Hebrew block U+0590..U+05FF, the others for themselves.
CourseName(i) ==
    IF i = 0 THEN <<"a">>
    ELSE IF i = 1 THEN <<"H", "G">>
    ELSE <<"H", "G", " ", "a">>
\* CourseInfo, AssignmentInfo, RecordingInfo, GradeInfo: the fields read here.
Course(i) == [id |-> i, name |-> CourseName(i)]
Assignment(i, c, due) ==
    [id |-> i, course_id |-> c, name |-> CourseName(c), due_date |-> due]
Recording(c, u) == [course_id |-> c, name |-> CourseName(c), url |-> u]
Grade(s, c, g) == [semester |-> s, course_id |-> c, grade |-> g, nan |-> FALSE]
\* A grade without a number (math.isnan(float(row["grade"]))).
NoGrade(s, c) == [semester |-> s, course_id |-> c, grade |-> 0, nan |-> TRUE]

\* What the remote services may answer, per kind of data.
RemoteCourses ==
    { <<>>, <<Course(1), Course(2)>>, <<Course(0), Course(1)>> }
RemoteAssignments ==
    { <<>>,
      <<Assignment(1, 1, 1), Assignment(1, 1, 1), Assignment(2, 2, TicksPerDay)>>,
      <<Assignment(0, 1, MaxTime + 1), Assignment(3, 1, 0)>> }
RemoteRecordings(course_id) ==
    { <<>>, <<Recording(course_id, 1), Recording(course_id, 2)>> }
RemoteGrades ==
    { <<>>,
      <<Grade(2023, 1, 90), Grade(2022, 1, 70), NoGrade(2023, 2)>>,
      <<NoGrade(2022, 2)>> }
\* The login triple (username, id, password).
LoginDetails == { <<"user", "id", "password">> }

\* The payloads save_cache is called with, per key.
Payloads(k) ==
    IF k = "courses" THEN RemoteCourses
    ELSE IF k = "assignments" THEN RemoteAssignments
    ELSE IF k = "recordings" THEN
        UNION { RemoteRecordings(c.id) : c \in { Course(1), Course(2) } }
    ELSE IF k = "grades" THEN RemoteGrades
    ELSE LoginDetails

\* ------------------------------------------------------------ file contents
\* A file that does not exist.
NoFile == [kind |-> "none"]
\* What pickle.dump writes: the record {"data": ..., "last_updated": ...}.
\* Pickling keeps the value of the payloads stored here (lists, tuples and
\* plain data objects), so the file is modelled by the record it unpickles to.
Entry(data, t) == [kind |-> "record", data |-> data, last_updated |-> t]
\* Contents that save_cache did not write, by what pickle.load and the two
\* subscripts of load_cache do with them:
\*   "eof"         pickle.load raises EOFError (an empty or cut-off file)
\*   "unpickling"  pickle.load raises pickle.UnpicklingError
\*   "other_error" pickle.load raises another exception (AttributeError,
\*                 ImportError, IndexError, ValueError, ...)
\*   "not_record"  pickle.load returns a value that is no {data, last_updated}
\*                 record, so cache["last_updated"] raises KeyError/TypeError
CaughtKinds == {"eof", "unpickling"}
UncaughtKinds == {"other_error", "not_record"}
CorruptKinds == CaughtKinds \cup UncaughtKinds
Corrupted(kind) == [kind |-> kind]

\* ------------------------------------------------------------- load_cache
\* The three ways a call of load_cache ends.
Hit(data) == [out |-> "data", val |-> data, warned |-> FALSE]
Miss(warned) == [out |-> "none", val |-> <<>>, warned |-> warned]
Raised == [out |-> "raise", val |-> <<>>, warned |-> FALSE]

\* The validity test with <= in the place of <.
CacheValidNonStrict(t, last_updated, cache_ttl) == t - last_updated <= cache_ttl

\* datetime.now() - cache["last_updated"] < cache_ttl
CacheValid(t, last_updated, cache_ttl) == t - last_updated < cache_ttl

LoadCache(fs, cache_file, t, cache_ttl) ==
    LET f == fs[cache_file] IN
    IF f.kind = "none" THEN Miss(FALSE)
    ELSE IF f.kind \in CaughtKinds THEN Miss(TRUE)
    ELSE IF f.kind \in UncaughtKinds THEN Raised
    ELSE IF CacheValid(t, f.last_updated, cache_ttl) THEN Hit(f.data)
    ELSE Miss(FALSE)

\* ------------------------------------------------------------- save_cache
\* A save that keeps the payload of a file that already holds an entry and
\* only stamps it again.
SaveCacheKeepsData(fs, data, cache_file, t) ==
    IF fs[cache_file].kind = "record"
    THEN [fs EXCEPT ![cache_file] = Entry(fs[cache_file].data, t)]
    ELSE [fs EXCEPT ![cache_file] = Entry(data, t)]

\* A save that rewrites the whole cache directory: the other files are gone.
SaveCacheClobbers(fs, data, cache_file, t) ==
    [k \in DOMAIN fs |-> IF k = cache_file THEN Entry(data, t) ELSE NoFile]

SaveCache(fs, data, cache_file, t) ==
    [fs EXCEPT ![cache_file] = Entry(data, t)]

\* --------------------------------------------------------- the cache store
\* The cache store driven by arbitrary calls. load_cache and save_cache take
\* the file as a parameter and treat every file alike, so the calls are drawn
\* over three of the keys: two data keys and the login key.
StoreKeys == {"courses", "grades", "login_details"}
NoCall == [op |-> "none", key |-> "none"]

\* No decorated function has been called.
AnimIdle ==
    /\ wpc = "idle"
    /\ tpc = "unstarted"
    /\ done = FALSE
    /\ frame = 0
    /\ terminal = <<"blank">>
    /\ result = <<"none">>
    /\ calls = 0

\* interactive_mode has not been entered.
NoAnswer == [kind |-> "none"]
NoLoad == [out |-> "no_load", val |-> <<>>, warned |-> FALSE]
NoEvent ==
    [at |-> "none", answer |-> NoAnswer, key |-> "none", loaded |-> NoLoad,
     fetches |-> 0, failed |-> FALSE, crash |-> "none", saved |-> {},
     used |-> <<>>, message |-> "none", opened |-> NoAnswer, time |-> 0]
NavIdle ==
    /\ default_ttl = CACHE_TTL
    /\ pc = "not_started"
    /\ course_choice = NoAnswer
    /\ menu = <<>>
    /\ ev = NoEvent

CacheInit ==
    /\ now = 0
    /\ files = [k \in CacheKeys |-> NoFile]
    /\ last = NoCall
    /\ AnimIdle
    /\ NavIdle

\* The clock advances.
Tick ==
    /\ now < MaxTime
    /\ now' = now + 1
    /\ UNCHANGED <<files, last>>

\* The save that came before a call, if the call before it was a save.
Before == IF last.op = "save" THEN [op |-> "save", key |-> last.key,
                                    data |-> last.data, at |-> last.at]
          ELSE [op |-> last.op, key |-> last.key]

\* save_cache(data, CACHE_FILES[k])
CallSave(k, data) ==
    /\ files' = SaveCache(files, data, k, now)
    /\ last' = [op |-> "save", key |-> k, data |-> data, at |-> now]
    /\ UNCHANGED now

\* load_cache(CACHE_FILES[k], cache_ttl)
CallLoad(k, cache_ttl) ==
    /\ last' = [op |-> "load", key |-> k, ttl |-> cache_ttl, at |-> now,
                res |-> LoadCache(files, k, now, cache_ttl), before |-> Before]
    /\ UNCHANGED <<now, files>>

\* Something other than save_cache rewrites a cache file.
Corrupt(k, kind) ==
    /\ files[k] # Corrupted(kind)
    /\ files' = [files EXCEPT ![k] = Corrupted(kind)]
    /\ last' = [op |-> "corrupt", key |-> k]
    /\ UNCHANGED now

CacheSaves == \E k \in StoreKeys : \E data \in Payloads(k) : CallSave(k, data)
CacheLoads == \E k \in StoreKeys : \E cache_ttl \in 0..MaxTTL : CallLoad(k, cache_ttl)
CacheCorrupts == \E k \in StoreKeys : \E kind \in CorruptKinds : Corrupt(k, kind)

CacheNext ==
    /\ Tick \/ CacheSaves \/ CacheLoads
    /\ UNCHANGED <<animVars, navVars>>
SpecCache == CacheInit /\ [][CacheNext]_vars

CorruptNext ==
    /\ Tick \/ CacheSaves \/ CacheLoads \/ CacheCorrupts
    /\ UNCHANGED <<animVars, navVars>>
SpecCorrupt == CacheInit /\ [][CorruptNext]_vars

\* Two cache files side by side: calls on one of them, with the other there.
PairKeys == {"courses", "grades"}
PairSaves == \E k \in PairKeys : \E data \in Payloads(k) : CallSave(k, data)
PairLoads == \E k \in PairKeys : \E cache_ttl \in 0..MaxTTL : CallLoad(k, cache_ttl)
PairCorrupts == \E k \in PairKeys : \E kind \in CorruptKinds : Corrupt(k, kind)

PairNext ==
    /\ Tick \/ PairSaves \/ PairLoads \/ PairCorrupts
    /\ UNCHANGED <<animVars, navVars>>
SpecPair == CacheInit /\ [][PairNext]_vars

\* ------------------------------------------------------ loading_animation
\* One decorated function: wrapped() on the caller's thread and animation() on
\* the thread it starts, interleaved step by step.
\* What the decorated function f may return.
Results == { <<"value", 1>>, <<"value", 2>> }

\* done = False; t = Thread(target=animation); t.start()
WrappedCall ==
    /\ wpc \in {"idle", "returned"}
    /\ calls < MaxCalls
    /\ calls' = calls + 1
    /\ done' = FALSE
    /\ tpc' = "check"
    /\ frame' = 0
    /\ wpc' = "in_f"
    /\ result' = <<"none">>
    /\ UNCHANGED terminal

\* result = f(*args, **kwargs), f returning
FReturns ==
    /\ wpc = "in_f"
    /\ \E r \in Results : result' = r
    /\ wpc' = "set_done"
    /\ UNCHANGED <<tpc, done, frame, terminal, calls>>

\* f(*args, **kwargs) raising: nothing in wrapped() catches it, so the
\* exception leaves wrapped() before done = True and t.join()
FRaises ==
    /\ wpc = "in_f"
    /\ wpc' = "raised"
    /\ UNCHANGED <<tpc, done, frame, terminal, result, calls>>

\* done = True
SetDone ==
    /\ wpc = "set_done"
    /\ done' = TRUE
    /\ wpc' = "join"
    /\ UNCHANGED <<tpc, frame, terminal, result, calls>>

\* A join that does not wait for the thread.
JoinedNoWait == TRUE

\* t.join() returns once the animation thread has ended
Joined == tpc = "terminated"

\* t.join(); return result
JoinAndReturn ==
    /\ wpc = "join"
    /\ Joined
    /\ wpc' = "returned"
    /\ UNCHANGED <<tpc, done, frame, terminal, result, calls>>

\* for c in cycle([...]): if done: break
AnimCheck ==
    /\ tpc = "check"
    /\ tpc' = IF done THEN "final" ELSE "write"
    /\ UNCHANGED <<wpc, done, frame, terminal, result, calls>>

\* terminal.write(f'\r{running_text} ' + c); terminal.flush()
AnimWrite ==
    /\ tpc = "write"
    /\ terminal' = <<"running", frame>>
    /\ tpc' = "sleep"
    /\ UNCHANGED <<wpc, done, frame, result, calls>>

\* sleep(0.1), then the next glyph of the cycle
AnimSleep ==
    /\ tpc = "sleep"
    /\ frame' = (frame + 1) % NumFrames
    /\ tpc' = "check"
    /\ UNCHANGED <<wpc, done, terminal, result, calls>>

\* terminal.write(f'\r{finished_text}' + spaces + "\n"); the thread ends
AnimFinish ==
    /\ tpc = "final"
    /\ terminal' = <<"finished">>
    /\ tpc' = "terminated"
    /\ UNCHANGED <<wpc, done, frame, result, calls>>

AnimNext ==
    /\ \/ WrappedCall
       \/ FReturns
       \/ FRaises
       \/ SetDone
       \/ JoinAndReturn
       \/ AnimCheck
       \/ AnimWrite
       \/ AnimSleep
       \/ AnimFinish
    /\ UNCHANGED <<cacheVars, navVars>>

SpecAnim == CacheInit /\ [][AnimNext]_vars

\* -------------------------------------------------------- interactive_mode
\* One step per answer to a prompt: the code that runs from the answer to the
\* next prompt, at one reading of the clock.

\* What .ask() returns: None on a cancelled prompt, else the value chosen.
Number(v) == [kind |-> "number", value |-> v]
Text(v) == [kind |-> "text", value |-> v]
Url(v) == [kind |-> "url", value |-> v]
\* Python's `not x` on an answer: None and the number 0 are false; the texts
\* and URLs chosen here are not empty.
Falsy(a) == a.kind = "none" \/ (a.kind = "number" /\ a.value = 0)

\* A remote call returns a collection or raises.
Ok(d) == [ok |-> TRUE, val |-> d]
Failed == [ok |-> FALSE, val |-> <<>>]

\* AdditionalAssignmentInfo.attachments of an assignment.
Attachment(a, n) ==
    [filename |-> <<"a">>, url |-> [path |-> 10 * a + n, forcedownload |-> TRUE]]
RemoteAttachments(assignment_id) ==
    { <<>>, <<Attachment(assignment_id, 1), Attachment(assignment_id, 2)>> }
\* attachment_choice.replace("?forcedownload=1", "")
StripForceDownload(u) == [u EXCEPT !.forcedownload = FALSE]

\* Python's truth value of what load_cache returned: None and an empty
\* collection are both false.
Truthy(loaded) == loaded.out = "data" /\ loaded.val # <<>>

\* load_cache(CACHE_FILES[key]) or fetch(...), and `if not grades: fetch`:
\* whether the remote is called, how the expression ends and its value.
OrFetch(loaded, fetched) ==
    [fetches |-> IF loaded.out = "raise" \/ Truthy(loaded) THEN 0 ELSE 1,
     crash |-> IF loaded.out = "raise" THEN "load_cache"
               ELSE IF ~Truthy(loaded) /\ ~fetched.ok THEN "fetch"
               ELSE "none",
     used |-> IF loaded.out = "raise" THEN <<>>
              ELSE IF Truthy(loaded) THEN loaded.val
              ELSE fetched.val]

\* A save_cache that also runs when the fetch raised.
FilesAfterSaveAlways(fs, key, r, t) == SaveCache(fs, r.used, key, t)

\* courses/assignments/recordings: save_cache(x, CACHE_FILES[key]) follows
\* the expression, so it runs unless the expression raised.
FilesAfter(fs, key, r, t) ==
    IF r.crash = "none" THEN SaveCache(fs, r.used, key, t) ELSE fs

\* grades: save_cache sits inside `if not grades:`, after the fetch.
GradesFilesAfter(fs, r, t) ==
    IF r.crash = "none" /\ r.fetches = 1
    THEN SaveCache(fs, r.used, "grades", t) ELSE fs

\* The keys written by the step.
SavedKeys(fsBefore, fsAfter, key, r, always) ==
    IF r.crash = "none" /\ (always \/ r.fetches = 1) THEN {key} ELSE {}

\* `continue` that leads to the prompt above the one cancelled.
ContinueToParent(at) ==
    IF at = "CourseList" THEN "Root"
    ELSE IF at = "CourseAction" THEN "CourseList"
    ELSE IF at = "AssignmentList" THEN "CourseAction"
    ELSE IF at = "AttachmentList" THEN "AssignmentList"
    ELSE IF at = "RecordingList" THEN "CourseAction"
    ELSE "Root"

\* `continue` that leaves the loop.
ContinueBreaks(at) == "Terminate"

\* `continue` that asks the cancelled prompt again.
ContinueStays(at) == at

\* `continue`: the next iteration of `while True` starts at the main prompt.
Continue(at) == "Root"

\* An end of the loop body that leads back to the list the item came from.
NextIterationToList(at) ==
    IF at = "AttachmentList" THEN "AssignmentList"
    ELSE IF at = "RecordingList" THEN "CourseAction"
    ELSE "Root"

\* The end of the loop body: the next iteration of `while True` starts at
\* the main prompt.
NextIteration(at) == "Root"

\* An emptiness test that never finds the collection empty.
NoRecordingsNever(recordings) == FALSE

\* len(recordings) == 0
NoRecordings(recordings) == Len(recordings) = 0

\* questionary.select(...) with the given choices: with no choice at all it
\* raises ValueError instead of showing a prompt.
PromptOrCrash(prompt, items) == IF items = <<>> THEN "Crashed" ELSE prompt

\* The decorated fetch, seen from interactive_mode: it returns with the
\* animation thread joined, or raises and leaves the thread running.
Spinner(fetches, crash) ==
    /\ IF fetches = 0
       THEN UNCHANGED <<wpc, tpc, done, terminal>>
       ELSE IF crash = "fetch"
       THEN /\ wpc' = "raised"
            /\ done' = FALSE
            /\ tpc' \in {"check", "write", "sleep"}
            /\ UNCHANGED terminal
       ELSE /\ wpc' = "returned"
            /\ done' = TRUE
            /\ tpc' = "terminated"
            /\ terminal' = <<"finished">>
    /\ UNCHANGED <<frame, result, calls>>

\* ---- pure helpers of the projections
RECURSIVE DropDuplicates(_)
\* DataFrame.drop_duplicates(): the first of equal rows is kept.
DropDuplicates(rows) ==
    IF rows = <<>> THEN <<>>
    ELSE LET init == DropDuplicates(SubSeq(rows, 1, Len(rows) - 1))
             x == rows[Len(rows)]
         IN IF \E i \in 1..Len(init) : init[i] = x THEN init ELSE Append(init, x)

\* [a for a in assignments if a.course_id == course_choice]
OfCourse(rows, course_id) ==
    SelectSeq(rows, LAMBDA a : a.course_id = course_id)

\* get_filtered_assignments: assignments["due_date"] > pd.Timestamp.now()
GetFilteredAssignments(rows, t) ==
    SelectSeq(rows, LAMBDA a : a.due_date > t)

\* (row["due_date"] - pd.Timestamp.now()).days: whole days, rounded down.
DaysLeft(due_date, t) == (due_date - t) \div TicksPerDay

\* modified_assignments: one entry per filtered row, with the days left at
\* the reading t of the clock.
ModifiedAssignments(rows, t) ==
    [i \in 1..Len(rows) |->
        [id |-> rows[i].id, course_id |-> rows[i].course_id,
         due_date |-> rows[i].due_date,
         days_left |-> DaysLeft(rows[i].due_date, t)]]

\* (semester, course_id, grade) of a row with a number as its grade.
GradeBefore(a, b) ==
    \/ a.semester < b.semester
    \/ a.semester = b.semester /\ a.course_id < b.course_id
    \/ a.semester = b.semester /\ a.course_id = b.course_id /\ a.grade <= b.grade

RECURSIVE SortGrades(_)
\* sort_values(by=["semester", "course_id", "grade"]), on rows with numbers.
SortGrades(rows) ==
    IF rows = <<>> THEN <<>>
    ELSE LET init == SortGrades(SubSeq(rows, 1, Len(rows) - 1))
             x == rows[Len(rows)]
             k == Cardinality({i \in 1..Len(init) : GradeBefore(init[i], x)})
         IN SubSeq(init, 1, k) \o <<x>> \o SubSeq(init, k + 1, Len(init))

\* The rows with a number, in the order of the payload: no sort_values.
RenderGradesUnsorted(grades) == SelectSeq(grades, LAMBDA g : ~g.nan)

\* The lines printed for the grades: the sorted rows, those whose grade is
\* not a number skipped (they sort last within their semester and course).
RenderGrades(grades) ==
    SortGrades(SelectSeq(grades, LAMBDA g : ~g.nan))

\* ---- reverse_hebrew_substrings, on sequences of characters
\* [\u0590-\u05FF]
IsHebrew(c) == c \in {"H", "G"}
\* match.group(0)[::-1]
Reverse(text) == [i \in 1..Len(text) |-> text[Len(text) + 1 - i]]

RECURSIVE FlipHebrewFrom(_, _)
\* The scan of re.sub from the left: run is the Hebrew run read so far,
\* already reversed (reverse_match); another character ends it.
FlipHebrewFrom(text, run) ==
    IF text = <<>> THEN run
    ELSE IF IsHebrew(Head(text))
         THEN FlipHebrewFrom(Tail(text), <<Head(text)>> \o run)
    ELSE run \o <<Head(text)>> \o FlipHebrewFrom(Tail(text), <<>>)

\* re.sub(hebrew_pattern, reverse_match, text)
FlipHebrew(text) == FlipHebrewFrom(text, <<>>)

RECURSIVE SplitFrom(_, _)
\* The scan of text.split() from the left: word is the word read so far;
\* a blank ends it, and blanks between words yield nothing.
SplitFrom(text, word) ==
    IF text = <<>> THEN IF word = <<>> THEN <<>> ELSE <<word>>
    ELSE IF Head(text) = " "
         THEN (IF word = <<>> THEN <<>> ELSE <<word>>)
                  \o SplitFrom(Tail(text), <<>>)
    ELSE SplitFrom(Tail(text), word \o <<Head(text)>>)

\* text.split(): the words between runs of blanks.
Split(text) == SplitFrom(text, <<>>)

RECURSIVE Join(_)
\* " ".join(words)
Join(words) ==
    IF words = <<>> THEN <<>>
    ELSE IF Len(words) = 1 THEN words[1]
    ELSE words[1] \o <<" ">> \o Join(Tail(words))

ReverseHebrewSubstrings(text) ==
    IF ~\E i \in 1..Len(text) : IsHebrew(text[i]) THEN text
    ELSE Join(Reverse(Split(FlipHebrew(text))))

\* The choices of "Select a course:": the label is transformed, the value
\* is the id as it came.
CourseChoices(courses) ==
    [i \in 1..Len(courses) |->
        [name |-> ReverseHebrewSubstrings(courses[i].name),
         value |-> courses[i].id]]

\* ---- the steps
\* ev.time is the reading of the clock the step starts with.
Event(at, answer) ==
    [NoEvent EXCEPT !.at = at, !.answer = answer, !.time = now]

\* main() has run get_login_details and entered interactive_mode. The default
\* time-to-live is the one configured, or a positive one: as long as the
\* clock runs here, so that entries are both reused and seen to expire.
NavInit ==
    /\ now = 0
    /\ files = [k \in CacheKeys |->
                  IF k = "login_details"
                  THEN Entry(CHOOSE d \in LoginDetails : TRUE, 0) ELSE NoFile]
    /\ last = NoCall
    /\ AnimIdle
    /\ default_ttl \in {CACHE_TTL, MaxNavTime}
    /\ pc = "Root"
    /\ course_choice = NoAnswer
    /\ menu = <<>>
    /\ ev = NoEvent

\* The clock advances while the loop runs.
NavTick ==
    /\ pc \notin {"Terminate", "Crashed"}
    /\ now < MaxNavTime
    /\ Tick
    /\ UNCHANGED <<animVars, navVars>>

\* main_choice is None: break
RootCancel ==
    /\ pc = "Root"
    /\ pc' = "Terminate"
    /\ ev' = Event("Root", NoAnswer)
    /\ menu' = <<>>
    /\ UNCHANGED <<cacheVars, animVars, default_ttl, course_choice>>

\* main_choice == "Exit": break
RootExit ==
    /\ pc = "Root"
    /\ pc' = "Terminate"
    /\ ev' = [Event("Root", Text("Exit")) EXCEPT !.message = "Exiting..."]
    /\ menu' = <<>>
    /\ UNCHANGED <<cacheVars, animVars, default_ttl, course_choice>>

\* main_choice == "View Grades"
ViewGrades ==
    /\ pc = "Root"
    /\ \E fetched \in {Failed} \cup {Ok(d) : d \in RemoteGrades} :
        LET loaded == LoadCache(files, "grades", now, default_ttl)
            r == OrFetch(loaded, fetched)
        IN  /\ files' = GradesFilesAfter(files, r, now)
            /\ pc' = IF r.crash # "none" THEN "Crashed"
                     ELSE IF Len(r.used) = 0 THEN Continue("Root")
                     ELSE "Grades"
            /\ menu' = IF r.crash = "none" THEN RenderGrades(r.used) ELSE <<>>
            /\ ev' = [Event("Root", Text("View Grades")) EXCEPT
                        !.key = "grades", !.loaded = loaded,
                        !.fetches = r.fetches, !.failed = (r.crash = "fetch"),
                        !.crash = r.crash,
                        !.saved = SavedKeys(files, files', "grades", r, FALSE),
                        !.used = r.used,
                        !.message = IF r.crash = "none" /\ Len(r.used) = 0
                                    THEN "No grades found." ELSE "none"]
            /\ Spinner(r.fetches, r.crash)
    /\ UNCHANGED <<now, last, default_ttl, course_choice>>

\* questionary.press_any_key_to_continue().ask(), then the loop starts over
GradesContinue ==
    /\ pc = "Grades"
    /\ pc' = NextIteration("Grades")
    /\ ev' = Event("Grades", NoAnswer)
    /\ menu' = <<>>
    /\ UNCHANGED <<cacheVars, animVars, default_ttl, course_choice>>

\* main_choice == "View Courses"
ViewCourses ==
    /\ pc = "Root"
    /\ \E fetched \in {Failed} \cup {Ok(d) : d \in RemoteCourses} :
        LET loaded == LoadCache(files, "courses", now, default_ttl)
            r == OrFetch(loaded, fetched)
        IN  /\ files' = FilesAfter(files, "courses", r, now)
            /\ pc' = IF r.crash # "none" THEN "Crashed"
                     ELSE PromptOrCrash("CourseList", r.used)
            /\ menu' = r.used
            /\ ev' = [Event("Root", Text("View Courses")) EXCEPT
                        !.key = "courses", !.loaded = loaded,
                        !.fetches = r.fetches, !.failed = (r.crash = "fetch"),
                        !.crash = IF r.crash # "none" THEN r.crash
                                  ELSE IF r.used = <<>> THEN "empty_menu"
                                  ELSE "none",
                        !.saved = SavedKeys(files, files', "courses", r, TRUE),
                        !.used = r.used]
            /\ Spinner(r.fetches, r.crash)
    /\ UNCHANGED <<now, last, default_ttl, course_choice>>

\* The answer to "Select a course:"
CourseListAnswer ==
    /\ pc = "CourseList"
    /\ \E answer \in {NoAnswer} \cup
            {Number(CourseChoices(menu)[i].value) : i \in 1..Len(menu)} :
        /\ course_choice' = answer
        /\ pc' = IF Falsy(answer) THEN Continue("CourseList") ELSE "CourseAction"
        /\ ev' = Event("CourseList", answer)
    /\ menu' = <<>>
    /\ UNCHANGED <<cacheVars, animVars, default_ttl>>

\* course_action is None or "Back"
CourseActionBack ==
    /\ pc = "CourseAction"
    /\ \E answer \in {NoAnswer, Text("Back")} :
        ev' = Event("CourseAction", answer)
    /\ pc' = Continue("CourseAction")
    /\ menu' = <<>>
    /\ UNCHANGED <<cacheVars, animVars, default_ttl, course_choice>>

\* course_action == "View Assignments". The clock is read by the filter
\* (get_filtered_assignments) and read again when the days left are computed:
\* the second reading is the first one or a later one.
ViewAssignments ==
    /\ pc = "CourseAction"
    /\ \E fetched \in {Failed} \cup {Ok(d) : d \in RemoteAssignments} :
      \E later \in {t \in {now, now + 1} : t <= MaxNavTime} :
        LET loaded == LoadCache(files, "assignments", now, default_ttl)
            r == OrFetch(loaded, fetched)
            mine == OfCourse(r.used, course_choice.value)
            filtered == GetFilteredAssignments(DropDuplicates(mine), now)
            reads == r.crash = "none" /\ Len(filtered) # 0
            rows == ModifiedAssignments(filtered, IF reads THEN later ELSE now)
        IN  /\ now' = IF reads THEN later ELSE now
            /\ files' = FilesAfter(files, "assignments", r, now)
            /\ pc' = IF r.crash # "none" THEN "Crashed"
                     ELSE IF Len(mine) = 0 THEN Continue("CourseAction")
                     ELSE PromptOrCrash("AssignmentList", rows)
            /\ menu' = IF r.crash = "none" /\ Len(mine) # 0 THEN rows ELSE <<>>
            /\ ev' = [Event("CourseAction", Text("View Assignments")) EXCEPT
                        !.key = "assignments", !.loaded = loaded,
                        !.fetches = r.fetches, !.failed = (r.crash = "fetch"),
                        !.crash = IF r.crash # "none" THEN r.crash
                                  ELSE IF Len(mine) # 0 /\ rows = <<>>
                                  THEN "empty_menu" ELSE "none",
                        !.saved = SavedKeys(files, files', "assignments", r, TRUE),
                        !.used = r.used,
                        !.message = IF r.crash = "none" /\ Len(mine) = 0
                                    THEN "No assignments found." ELSE "none"]
            /\ Spinner(r.fetches, r.crash)
    /\ UNCHANGED <<last, default_ttl, course_choice>>

\* The answer to "Select an assignment:"
AssignmentListAnswer ==
    /\ pc = "AssignmentList"
    /\ \E answer \in {NoAnswer} \cup {Number(menu[i].id) : i \in 1..Len(menu)} :
        IF Falsy(answer)
        THEN /\ pc' = Continue("AssignmentList")
             /\ ev' = Event("AssignmentList", answer)
             /\ menu' = <<>>
             /\ UNCHANGED animVars
        ELSE \E fetched \in {Failed} \cup
                    {Ok(d) : d \in RemoteAttachments(answer.value)} :
             /\ pc' = IF ~fetched.ok THEN "Crashed"
                      ELSE PromptOrCrash("AttachmentList", fetched.val)
             /\ menu' = fetched.val
             /\ ev' = [Event("AssignmentList", answer) EXCEPT
                         !.key = "additional_info", !.fetches = 1,
                         !.failed = ~fetched.ok,
                         !.crash = IF ~fetched.ok THEN "fetch"
                                   ELSE IF fetched.val = <<>> THEN "empty_menu"
                                   ELSE "none",
                         !.used = fetched.val]
             /\ Spinner(1, IF fetched.ok THEN "none" ELSE "fetch")
    /\ UNCHANGED <<cacheVars, default_ttl, course_choice>>

\* The answer to "Select an attachment:"
AttachmentListAnswer ==
    /\ pc = "AttachmentList"
    /\ \E answer \in {NoAnswer} \cup {Url(menu[i].url) : i \in 1..Len(menu)} :
        /\ pc' = IF Falsy(answer) THEN Continue("AttachmentList")
                 ELSE NextIteration("AttachmentList")
        /\ ev' = [Event("AttachmentList", answer) EXCEPT
                    !.opened = IF Falsy(answer) THEN NoAnswer
                               ELSE Url(StripForceDownload(answer.value)),
                    !.message = IF Falsy(answer) THEN "none"
                                ELSE "Opening file..."]
    /\ menu' = <<>>
    /\ UNCHANGED <<cacheVars, animVars, default_ttl, course_choice>>

\* course_action == "View Recordings"
ViewRecordings ==
    /\ pc = "CourseAction"
    /\ \E fetched \in {Failed} \cup
                {Ok(d) : d \in RemoteRecordings(course_choice.value)} :
        LET loaded == LoadCache(files, "recordings", now, default_ttl)
            r == OrFetch(loaded, fetched)
        IN  /\ files' = FilesAfter(files, "recordings", r, now)
            /\ pc' = IF r.crash # "none" THEN "Crashed"
                     ELSE IF NoRecordings(r.used) THEN Continue("CourseAction")
                     ELSE "RecordingList"
            /\ menu' = r.used
            /\ ev' = [Event("CourseAction", Text("View Recordings")) EXCEPT
                        !.key = "recordings", !.loaded = loaded,
                        !.fetches = r.fetches, !.failed = (r.crash = "fetch"),
                        !.crash = r.crash,
                        !.saved = SavedKeys(files, files', "recordings", r, TRUE),
                        !.used = r.used,
                        !.message = IF r.crash = "none" /\ NoRecordings(r.used)
                                    THEN "No recordings found." ELSE "none"]
            /\ Spinner(r.fetches, r.crash)
    /\ UNCHANGED <<now, last, default_ttl, course_choice>>

\* The answer to "Select a recording:"
RecordingListAnswer ==
    /\ pc = "RecordingList"
    /\ \E answer \in {NoAnswer} \cup {Url(menu[i].url) : i \in 1..Len(menu)} :
        /\ pc' = IF Falsy(answer) THEN Continue("RecordingList")
                 ELSE NextIteration("RecordingList")
        /\ ev' = [Event("RecordingList", answer) EXCEPT
                    !.opened = answer,
                    !.message = IF Falsy(answer) THEN "none"
                                ELSE "Playing recording..."]
    /\ menu' = <<>>
    /\ UNCHANGED <<cacheVars, animVars, default_ttl, course_choice>>

Next ==
    \/ NavTick
    \/ RootCancel
    \/ RootExit
    \/ ViewGrades
    \/ GradesContinue
    \/ ViewCourses
    \/ CourseListAnswer
    \/ CourseActionBack
    \/ ViewAssignments
    \/ AssignmentListAnswer
    \/ AttachmentListAnswer
    \/ ViewRecordings
    \/ RecordingListAnswer

Spec == NavInit /\ [][Next]_vars

\* ------------------------------------------------- claims on the cache store
\* The last call was a load_cache that directly followed a save_cache of the
\* same key, with a time-to-live larger than the time elapsed between them.
LoadRightAfterSave ==
    /\ last.op = "load"
    /\ last.before.op = "save"
    /\ last.before.key = last.key
    /\ last.at - last.before.at < last.ttl

\* C1: round trip. A load_cache that directly follows a save_cache(d) of the
\* same key, with a time-to-live larger than the elapsed time, returns exactly
\* d, whatever calls came before the save.
C1_RoundTrip == LoadRightAfterSave => last.res = Hit(last.before.data)

\* C1 witness: such a load after some time has passed, on a key whose file
\* held another payload before the save.
C1_Witness ==
    /\ LoadRightAfterSave
    /\ last.at > last.before.at
    /\ last.before.data # <<>>
    /\ last.res.out = "data"
    /\ \E k \in StoreKeys \ {last.key} : files[k].kind = "record"

\* C2: expiry. With the default time-to-live CACHE_TTL = 0, load_cache returns
\* None for every key in every state the store reaches by its own calls, the
\* state right after a save_cache of the key included.
C2_ZeroTtlAlwaysAbsent ==
    /\ \A k \in CacheKeys : LoadCache(files, k, now, CACHE_TTL) = Miss(FALSE)
    /\ (last.op = "load" /\ last.ttl = CACHE_TTL) => last.res = Miss(FALSE)

\* C2 witness: a load with time-to-live 0 right after a save of the same key,
\* at the same clock reading, that returned None.
C2_Witness ==
    /\ last.op = "load"
    /\ last.ttl = CACHE_TTL
    /\ last.before.op = "save"
    /\ last.before.key = last.key
    /\ last.before.at = last.at
    /\ files[last.key].kind = "record"
    /\ last.res.out = "none"

\* C3: corruption recovery. A load_cache of a file with corrupted content
\* never raises to its caller and returns None.
C3_CorruptNeverRaises ==
    (last.op = "load" /\ files[last.key].kind \in CorruptKinds)
        => last.res.out = "none"

\* --------------------------------------------- claims on loading_animation
\* C8: when a decorated call returns its result, the animation thread has
\* ended: done was set and the thread was joined.
C8_ReturnedMeansJoined ==
    wpc = "returned" => (tpc = "terminated" /\ done /\ result \in Results)

\* C8 witness: a call has returned after the animation wrote at least one
\* frame and then the finished text.
C8_Witness ==
    /\ wpc = "returned"
    /\ frame > 0
    /\ terminal = <<"finished">>

\* C9: on every way out of a decorated call, the one where the decorated
\* function raises included, the animation thread was signalled and joined.
C9_JoinedOnEveryExit ==
    wpc \in {"returned", "raised"} => (done /\ tpc = "terminated")

\* ---------------------------------------------- claims on interactive_mode
\* The last answer was a cancellation of the "Select an assignment:" prompt.
CancelledAssignmentList ==
    ev.at = "AssignmentList" /\ ev.answer = NoAnswer

ChoseRecordingsOfNone ==
    /\ ev.at = "CourseAction"
    /\ ev.answer = Text("View Recordings")
    /\ ev.crash = "none"
    /\ ev.used = <<>>

LoopEnded == pc \in {"Terminate", "Crashed"}
LeftFromRoot ==
    ev.at = "Root" /\ ev.answer \in {NoAnswer, Text("Exit")}

\* C6: the loop ends only at Root, by "Exit" or by cancelling; no selection,
\* cancellation, empty collection or fetch outcome elsewhere ends it.
C6_EndsOnlyFromRoot == LoopEnded => LeftFromRoot

\* C6, amended: the loop ends by break only at Root, by "Exit" or by
\* cancelling; it ends otherwise only by an exception that nothing catches (a
\* failed fetch, a load_cache that raises, a select without choices); no
\* selection or cancellation that raises nothing ends it.
C6_BreakOnlyFromRoot ==
    /\ pc = "Terminate" => LeftFromRoot
    /\ pc = "Crashed" => ev.crash \in {"fetch", "load_cache", "empty_menu"}
    /\ (ev.crash = "none" /\ ~LeftFromRoot) => ~LoopEnded

\* C6 witness: the loop ended by "Exit" after a course had been visited.
C6_Witness ==
    /\ pc = "Terminate"
    /\ ev.answer = Text("Exit")
    /\ ~Falsy(course_choice)

\* C7: a failed remote fetch leaves the menu action by the exception, and no
\* save_cache runs: every cache file is what it was before the step.
C7_FailedFetchSavesNothing ==
    [][ev'.failed => (files' = files /\ ev'.saved = {} /\ pc' = "Crashed")]_vars

\* C7 witness: a fetch for a data key failed while the key's file held an
\* entry of an earlier fetch.
C7_Witness ==
    /\ ev.failed
    /\ ev.key \in DataKeys
    /\ files[ev.key].kind = "record"
    /\ pc = "Crashed"

\* C10: load or fetch. A payload returned by load_cache, an empty collection
\* included, is used without a remote fetch; when load_cache returns None,
\* one fetch is made and its result is saved under the key and used.
C10_LoadOrFetch ==
    ev.key \in DataKeys =>
        /\ ev.loaded.out = "data" => (ev.fetches = 0 /\ ev.used = ev.loaded.val)
        /\ (ev.loaded.out = "none" /\ ~ev.failed) =>
               /\ ev.fetches = 1
               /\ ev.key \in ev.saved
               /\ files[ev.key].kind = "record"
               /\ files[ev.key].data = ev.used

\* C11: per-course filter. Every assignment offered at AssignmentList and
\* every recording offered at RecordingList belongs to the course selected; a
\* collection cached during the visit of one course is not shown for another.
C11_OffersOnlySelectedCourse ==
    pc \in {"AssignmentList", "RecordingList"} =>
        \A i \in 1..Len(menu) : menu[i].course_id = course_choice.value

\* C12: no selection prompt is built from zero choices: at CourseList,
\* AssignmentList, AttachmentList and RecordingList an empty collection gives
\* a message and the way back instead of a prompt.
C12_NoEmptyMenu ==
    /\ ev.crash # "empty_menu"
    /\ pc \in {"CourseList", "AssignmentList", "AttachmentList", "RecordingList"}
           => menu # <<>>

\* C13: future assignments. At AssignmentList exactly the assignments of the
\* course due strictly after the instant T of the filter are offered, and the
\* days left shown for each are the whole days from that same T to its due
\* date, never negative.
C13_DaysLeftFromFilterInstant ==
    pc = "AssignmentList" =>
        /\ \A i \in 1..Len(menu) :
              /\ menu[i].due_date > ev.time
              /\ menu[i].days_left = DaysLeft(menu[i].due_date, ev.time)
              /\ menu[i].days_left >= 0
        /\ \A j \in 1..Len(ev.used) :
              (ev.used[j].course_id = course_choice.value
                  /\ ev.used[j].due_date > ev.time)
              => \E i \in 1..Len(menu) : menu[i].id = ev.used[j].id

\* How often a row occurs in a sequence of rows.
Occurrences(rows, x) == Cardinality({i \in 1..Len(rows) : rows[i] = x})
\* (semester, course_id, grade) of a is not after that of b.
NotAfter(a, b) ==
    \/ a.semester < b.semester
    \/ a.semester = b.semester /\ a.course_id < b.course_id
    \/ a.semester = b.semester /\ a.course_id = b.course_id
          /\ a.grade <= b.grade

\* C14: grade rendering. The lines printed are exactly the grades that have a
\* number, in ascending order of (semester, course_id, grade); the grades
\* without a number are skipped but stay in the payload kept in the cache.
C14_GradesRendered ==
    pc = "Grades" =>
        /\ \A i \in 1..Len(menu) : ~menu[i].nan
        /\ \A i \in 1..Len(menu) : \A j \in i..Len(menu) :
              NotAfter(menu[i], menu[j])
        /\ \A k \in 1..Len(ev.used) :
              Occurrences(menu, ev.used[k]) =
                  IF ev.used[k].nan THEN 0
                  ELSE Occurrences(ev.used, ev.used[k])
        /\ files["grades"].kind = "record"
        /\ files["grades"].data = ev.used

\* C14 witness: grades are shown from a payload that has a row without a
\* number and whose rows are not in ascending order.
C14_Witness ==
    /\ pc = "Grades"
    /\ Len(menu) = 2
    /\ \E k \in 1..Len(ev.used) : ev.used[k].nan
    /\ ev.used[1] = menu[2]

\* C15: selecting a course at CourseList leads to CourseAction with the id of
\* the course, untransformed, as the value carried, whatever the label made
\* of its name and whatever the id, 0 included.
C15_SelectionCarriesId ==
    (ev.at = "CourseList" /\ ev.answer.kind = "number") =>
        (pc = "CourseAction" /\ course_choice = ev.answer)

\* The last answer was a cancellation ("Back" included) at CourseAction,
\* AttachmentList or RecordingList.
CancelledBelowCourseList ==
    /\ ev.at \in {"CourseAction", "AttachmentList", "RecordingList"}
    /\ ev.answer \in {NoAnswer, Text("Back")}

\* The prompt above a prompt in the menu hierarchy.
ParentOf(at) ==
    IF at = "CourseAction" THEN "CourseList"
    ELSE IF at = "AttachmentList" THEN "AssignmentList"
    ELSE "CourseAction"

OpenedItem ==
    /\ ev.at \in {"AttachmentList", "RecordingList"}
    /\ ev.opened # NoAnswer

\* C17: after an attachment is opened the next state is AssignmentList, after
\* a recording is opened it is CourseAction, after the grades it is Root.
C17_AfterOpenBackToList ==
    /\ (OpenedItem /\ ev.at = "AttachmentList") => pc = "AssignmentList"
    /\ (OpenedItem /\ ev.at = "RecordingList") => pc = "CourseAction"
    /\ ev.at = "Grades" => pc = "Root"

\* C17, amended: after an attachment or a recording is opened, and after the
\* grades are shown, the next state is Root.
C17_AfterOpenToMainMenu ==
    /\ OpenedItem => (pc = "Root" /\ menu = <<>>)
    /\ ev.at = "Grades" => pc = "Root"

\* C17 witness: an attachment was opened, by its URL without the
\* force-download marker.
C17_Witness ==
    /\ OpenedItem
    /\ ev.at = "AttachmentList"
    /\ ev.opened.value.forcedownload = FALSE

\* C18: per-key isolation. load_cache changes no file, a corrupted one
\* included; save_cache of key k changes only the file of k; so what
\* load_cache returns for another key is the same before and after a save to,
\* or a corruption of, k.
C18_PerKeyIsolation ==
    [][now' = now =>
        /\ last'.op = "load" => files' = files
        /\ last'.op \in {"save", "corrupt"} =>
              \A k \in CacheKeys \ {last'.key} :
                  /\ files'[k] = files[k]
                  /\ \A cache_ttl \in 0..MaxTTL :
                        LoadCache(files', k, now', cache_ttl)
                            = LoadCache(files, k, now, cache_ttl)]_vars

\* C18 witness: a load returned the payload of its key while the file of
\* the other key was corrupted.
C18_Witness ==
    /\ last.op = "load"
    /\ last.res.out = "data"
    /\ \E k \in PairKeys \ {last.key} : files[k].kind \in CorruptKinds

\* C19: a cache entry is written only after a successful remote fetch: an
\* access of a data key that fetches nothing runs no save_cache and leaves
\* every file, last_updated included, as it was, so a hit does not extend the
\* lifetime of the entry.
C19_WrittenOnlyOnFetch ==
    [][(ev'.key \in DataKeys /\ ev'.fetches = 0) =>
          (ev'.saved = {} /\ files' = files)]_vars

\* The prompts of interactive_mode, and how deep each one is below the end
\* of the loop.
Prompts == {"Root", "Grades", "CourseList", "CourseAction", "AssignmentList",
            "AttachmentList", "RecordingList"}
Depth(at) ==
    IF at = "Root" THEN 1
    ELSE IF at \in {"Grades", "CourseList"} THEN 2
    ELSE IF at = "CourseAction" THEN 3
    ELSE IF at \in {"AssignmentList", "RecordingList"} THEN 4
    ELSE IF at = "AttachmentList" THEN 5
    ELSE 0

\* The step answers the prompt the loop is at with a cancellation.
CancelStep == ev' # ev /\ ev'.at = pc /\ ev'.answer = NoAnswer

\* The steps that answer a prompt.
Answers ==
    \/ RootCancel
    \/ GradesContinue
    \/ CourseListAnswer
    \/ CourseActionBack
    \/ AssignmentListAnswer
    \/ AttachmentListAnswer
    \/ RecordingListAnswer

\* C20: exit is always reachable by cancelling. Every prompt can be
\* cancelled; a cancellation calls no remote, raises nothing and leads to a
\* state strictly less deep than the prompt cancelled; cancelling at Root
\* ends the loop. So a user who only cancels reaches Terminate after at most
\* Depth prompts.
C20_CancelReachesExit ==
    /\ [](pc \in Prompts => ENABLED (Answers /\ CancelStep))
    /\ [][CancelStep =>
            /\ pc' \in Prompts \cup {"Terminate"}
            /\ Depth(pc') < Depth(pc)
            /\ pc = "Root" => pc' = "Terminate"
            /\ ev'.fetches = 0
            /\ files' = files]_vars

\* C20 witness: the loop ended by a cancellation at Root, reached by a
\* cancellation at the list of recordings of a course.
C20_Witness ==
    /\ pc = "Terminate"
    /\ ev.at = "Root"
    /\ ev.answer = NoAnswer
    /\ ~Falsy(course_choice)
    /\ files["recordings"].kind = "record"

====
